---- MODULE Spec2Model ----
(***************************************************************************)
(* A model of fetch-api (src/lib/api.js): the Api class, a thin wrapper    *)
(* around the global fetch.                                                *)
(*                                                                         *)
(* JavaScript strings that the code inspects (content types, urls, query   *)
(* strings) are sequences of one-character strings, so that the regular    *)
(* expressions of the code are decided character by character. JavaScript  *)
(* values whose kind the code inspects are records with a tag t. Objects   *)
(* (options, headers, query) are functions from property names to values;  *)
(* an absent property is a name outside the DOMAIN.                        *)
(*                                                                         *)
(* No method of Api changes an existing instance and dispatches share no   *)
(* state, so calls are taken one at a time: a call starts when the result  *)
(* of the last one was dropped (Return), and the promise it returned       *)
(* settles in the continuations TransportResolves, TransportRejects and    *)
(* DecodeSettles.                                                          *)
(***************************************************************************)
EXTENDS Integers, Sequences, FiniteSets, TLC

VARIABLES
    apis,         \* the Api instances created so far, in creation order
    derivedFrom,  \* derivedFrom[i]: the instance auth() was called on to create i (0: constructed by the caller)
    call,         \* the last synchronous call: operation, receiver, arguments, what it threw or returned, what it handed to the transport
    promise       \* the promise that call returned, and what it still waits for

vars == <<apis, derivedFrom, call, promise>>

----------------------------------------------------------------------------
(* Bounds of the model *)

\* content-type strings are concatenations of at most this many pieces
MaxCtParts == 2

\* at most this many Api instances exist (the constructed one and auth()'s)
MaxApis == 2

----------------------------------------------------------------------------
(* JavaScript values *)

Undefined == [t |-> "undefined"]
Null == [t |-> "null"]
Str(s) == [t |-> "string", v |-> s]
Num(n) == [t |-> "number", v |-> n]

EmptyObj == [k \in {} |-> Undefined]

\* o[k] of JavaScript: undefined when o has no property k
Prop(o, k) == IF k \in DOMAIN o THEN o[k] ELSE Undefined

\* x || {} of JavaScript for x an object, null or undefined
OrEmpty(x) == IF x = Undefined \/ x = Null THEN EmptyObj ELSE x

\* if (x) of JavaScript for x an object, null or undefined: every object is truthy
Truthy(x) == x # Undefined /\ x # Null

\* {...a, ...b} of JavaScript; spreading undefined or null adds nothing
Spread(a, b) ==
    LET oa == OrEmpty(a)
        ob == OrEmpty(b)
    IN [k \in DOMAIN oa \cup DOMAIN ob |-> IF k \in DOMAIN ob THEN ob[k] ELSE oa[k]]

\* {...o, k: v} of JavaScript
With(o, k, v) == [j \in DOMAIN o \cup {k} |-> IF j = k THEN v ELSE o[j]]

\* pattern.test(s) and s.match(pattern) for an unanchored pattern of literal characters
MatchAt(s, pat, i) ==
    /\ i + Len(pat) - 1 <= Len(s)
    /\ \A k \in 1..Len(pat) : s[i + k - 1] = pat[k]

RegexTest(pat, s) == \E i \in 1..Len(s) : MatchAt(s, pat, i)

----------------------------------------------------------------------------
(* Errors *)

NoError == [t |-> "none"]

\* new ApiError(`Response has no transformer with name ${transformerName}`)
NoTransformerError(transformerName) ==
    [t |-> "ApiError", message |-> <<"Response has no transformer with name ", transformerName>>]

Digits == <<"0", "1", "2", "3", "4", "5", "6", "7", "8", "9">>

\* `${n}` for a natural number n: its decimal digits
RECURSIVE NumberToString(_)
NumberToString(n) ==
    IF n < 10 THEN <<Digits[n + 1]>>
    ELSE NumberToString(n \div 10) \o <<Digits[(n % 10) + 1]>>

\* new ApiError(`Response has no ok-status (${response.status} - ${response.statusText})`)
\* with error.response = response; data is not set yet
OkStatusError(response) ==
    [t |-> "ApiError",
     message |-> <<"Response has no ok-status (">> \o NumberToString(response.status)
                 \o <<" - ", response.statusText, ")">>,
     response |-> response]

\* the TypeError of reading a property of null or undefined
PropertyOfNullishError(name, x) ==
    [t |-> "TypeError", message |-> <<"Cannot read property ", name, " of ", x.t>>]

\* what a body-decoding promise of the transport rejects with
DecodeError(transformerName) == [t |-> "DecodeError", by |-> transformerName]

\* what the transport rejects with
TransportError == [t |-> "TransportError"]

----------------------------------------------------------------------------
(* Content types *)

cJSON == <<"j", "s", "o", "n">>
cTEXT == <<"t", "e", "x", "t", "/">>

CtPieces ==
    {cJSON, cTEXT, <<"a">>, <<"j", "s", "o">>, <<"n">>, <<"t", "e", "x", "t">>, <<"/">>}

RECURSIVE Concats(_)
Concats(n) ==
    IF n = 0 THEN {<< >>}
    ELSE LET prev == Concats(n - 1)
         IN prev \cup {p \o q : p \in prev, q \in CtPieces}

CtStrings == Concats(MaxCtParts)

\* what response.headers.get('Content-Type') may return, and other non-strings
ContentTypes == {Str(s) : s \in CtStrings} \cup {Null, Undefined, Num(1)}

\* transformerFromContentType with the text/ pattern anchored at the start: /^text\//
transformerFromContentType_Anchored(contentType) ==
    IF contentType.t # "string" THEN "raw"
    ELSE IF RegexTest(cJSON, contentType.v) THEN "json"
    ELSE IF MatchAt(contentType.v, cTEXT, 1) THEN "text"
    ELSE "raw"

transformerFromContentType(contentType) ==
    IF contentType.t # "string" THEN "raw"
    ELSE IF RegexTest(cJSON, contentType.v) THEN "json"
    ELSE IF RegexTest(cTEXT, contentType.v) THEN "text"
    ELSE "raw"

----------------------------------------------------------------------------
(* Responses of the transport *)

NoResponse == [t |-> "none"]

\* a value the body decodes to
Sym == [t |-> "symbol", v |-> "data"]

\* what a body-decoding operation does when called: it returns a value
\* (possibly null or undefined) or a promise that resolves to one or rejects
DecodeBehaviours ==
    {[kind |-> "value", fate |-> "none", payload |-> p] : p \in {Sym, Null, Undefined}}
    \cup {[kind |-> "promise", fate |-> "resolve", payload |-> p] : p \in {Sym, Null}}
    \cup {[kind |-> "promise", fate |-> "reject", payload |-> Undefined]}

StatusLines ==
    {[ok |-> TRUE, status |-> 200, statusText |-> "OK"],
     [ok |-> FALSE, status |-> 404, statusText |-> "Not Found"],
     [ok |-> FALSE, status |-> 500, statusText |-> "Internal Server Error"]}

TransformerNames == {"json", "text", "raw"}

\* has: the names among json, text, raw under which the response holds a function
Response(line, contentType, has, decode) ==
    [t |-> "Response", ok |-> line.ok, status |-> line.status, statusText |-> line.statusText,
     contentType |-> contentType, has |-> has, decode |-> decode]

Responses ==
    {Response(l, c, h, d) : l \in StatusLines, c \in ContentTypes,
                            h \in SUBSET TransformerNames, d \in DecodeBehaviours}

\* the responses of a standard fetch: json and text return promises, there is no raw
FetchResponses ==
    {Response(l, c, {"json", "text"}, d) :
        l \in {s \in StatusLines : s.status # 500},
        c \in {Str(<<"a", "/">> \o cJSON), Str(cTEXT \o <<"a">>), Null},
        d \in {b \in DecodeBehaviours : b.kind = "promise" /\ b.payload # Null}}

\* the value the operation named name yields for a body that decodes to payload
Decoded(name, payload) ==
    IF payload = Null \/ payload = Undefined THEN payload
    ELSE [t |-> "decoded", by |-> name, of |-> payload]

\* response[name]() for a name the response has a function under
Invoke(response, name) ==
    [kind |-> response.decode.kind, fate |-> response.decode.fate,
     v |-> Decoded(name, response.decode.payload)]

----------------------------------------------------------------------------
(* Promises *)

NoPromise ==
    [state |-> "none", await |-> "nothing", via |-> "nothing", response |-> NoResponse,
     value |-> Undefined]

\* await: what the promise waits for; via: the step that settled it
\* (call: settled when returned; transport, decode: settled in that continuation)
Settled(state, via, response, value) ==
    [state |-> state, await |-> "nothing", via |-> via, response |-> response, value |-> value]

Pending(await, response) ==
    [state |-> "pending", await |-> await, via |-> "nothing", response |-> response,
     value |-> Undefined]

----------------------------------------------------------------------------
(* Api.transformer, Api.transform *)

\* transformer that falls back to raw when the response lacks the selected operation
transformer_FallsBackToRaw(response) ==
    LET contentType == response.contentType
        transformerName == transformerFromContentType(contentType)
    IN IF transformerName \in response.has THEN [thrown |-> NoError, name |-> transformerName]
       ELSE IF "raw" \in response.has THEN [thrown |-> NoError, name |-> "raw"]
       ELSE [thrown |-> NoTransformerError(transformerName), name |-> transformerName]

\* returns the bound function, here its name; thrown is what it throws instead
transformer(response) ==
    LET contentType == response.contentType
        transformerName == transformerFromContentType(contentType)
    IN IF transformerName \notin response.has
       THEN [thrown |-> NoTransformerError(transformerName), name |-> transformerName]
       ELSE [thrown |-> NoError, name |-> transformerName]

\* the callbacks of data.then(...) in transform, run when data resolved to v
transformThen(response, v) ==
    IF ~response.ok
    THEN Settled("rejected", "decode", response, With(OkStatusError(response), "data", v))
    ELSE Settled("fulfilled", "decode", response, [response |-> response, data |-> v])

\* data.then(...) has no rejection callback: the rejection passes through
transformCatch(response, e) == Settled("rejected", "decode", response, e)

\* via: the step transform runs in (call: called directly; transport: as the
\* continuation of the transport's promise)
transform(response, via) ==
    LET tr == transformer(response)
    IN IF tr.thrown # NoError THEN [thrown |-> tr.thrown, promise |-> NoPromise]
       ELSE LET data == Invoke(response, tr.name)
            IN IF data.kind = "value" /\ (data.v = Null \/ data.v = Undefined)
               THEN \* typeof data.then
                    [thrown |-> PropertyOfNullishError("then", data.v), promise |-> NoPromise]
               ELSE IF data.kind = "promise"
               THEN [thrown |-> NoError, promise |-> Pending("decode", response)]
               ELSE IF ~response.ok
               THEN [thrown |-> NoError,
                     promise |-> Settled("rejected", via, response,
                                         With(OkStatusError(response), "data", data.v))]
               ELSE [thrown |-> NoError,
                     promise |-> Settled("fulfilled", via, response,
                                         [response |-> response, data |-> data.v])]

----------------------------------------------------------------------------
(* Calls *)

NoCall ==
    [op |-> "none", self |-> 0, args |-> << >>, thrown |-> NoError, returned |-> Undefined,
     transport |-> << >>]

Called(op, self, args, thrown, returned, transport) ==
    [op |-> op, self |-> self, args |-> args, thrown |-> thrown, returned |-> returned,
     transport |-> transport]

Idle == call.op = "none"

\* api.transformerFromContentType(contentType), as the tests and transformer call it
TransformerFromContentType(contentType) ==
    /\ Idle
    /\ call' = Called("transformerFromContentType", 1, <<contentType>>, NoError,
                      Str(transformerFromContentType(contentType)), << >>)
    /\ UNCHANGED <<apis, derivedFrom, promise>>

\* api.transform(response), called directly
Transform(response) ==
    /\ Idle
    /\ LET r == transform(response, "call")
       IN /\ call' = Called("transform", 1, <<response>>, r.thrown,
                            IF r.thrown = NoError THEN [t |-> "Promise"] ELSE Undefined, << >>)
          /\ promise' = r.promise
    /\ UNCHANGED <<apis, derivedFrom>>

\* the promise the body-decoding operation returned settles; transform's
\* continuation runs
DecodeSettles ==
    /\ promise.state = "pending"
    /\ promise.await = "decode"
    /\ LET response == promise.response
           data == Invoke(response, transformer(response).name)
       IN promise' = IF data.fate = "resolve"
                     THEN transformThen(response, data.v)
                     ELSE transformCatch(response, DecodeError(transformer(response).name))
    /\ UNCHANGED <<apis, derivedFrom, call>>

\* the caller drops the result of the last call and is ready for the next
Return ==
    /\ ~Idle
    /\ promise.state # "pending"
    /\ call' = NoCall
    /\ promise' = NoPromise
    /\ UNCHANGED <<apis, derivedFrom>>

----------------------------------------------------------------------------
(* Urls and query strings *)

cHTTP == <<"h", "t", "t", "p", ":", "/", "/">>
cHTTPS == <<"h", "t", "t", "p", "s", ":", "/", "/">>
cWWW == <<"w", "w", "w">>
cHost == <<"e", ".", "c">>

StartsWith(s, prefix) == Len(prefix) <= Len(s) /\ SubSeq(s, 1, Len(prefix)) = prefix

\* strict-uri-encode of query-string: encodeURIComponent, one character at a time
EncodeChar(c) ==
    CASE c = ":" -> <<"%", "3", "A">>
      [] c = "/" -> <<"%", "2", "F">>
      [] c = "?" -> <<"%", "3", "F">>
      [] c = "=" -> <<"%", "3", "D">>
      [] c = "&" -> <<"%", "2", "6">>
      [] OTHER -> <<c>>

RECURSIVE Encode(_)
Encode(s) == IF s = << >> THEN << >> ELSE EncodeChar(Head(s)) \o Encode(Tail(s))

\* the property names query objects use, as Object.keys(obj).sort() orders them
QueryKeyOrder == <<"a", "q">>

RECURSIVE StringifyFrom(_, _)
StringifyFrom(obj, i) ==
    IF i > Len(QueryKeyOrder) THEN << >>
    ELSE LET key == QueryKeyOrder[i]
             rest == StringifyFrom(obj, i + 1)
         IN IF key \notin DOMAIN obj THEN rest
            ELSE Encode(<<key>>) \o <<"=">> \o Encode(obj[key])
                 \o (IF rest = << >> THEN << >> ELSE <<"&">> \o rest)

\* queryString.stringify(obj): encoded key=value pairs in key order, joined by &
Stringify(obj) == StringifyFrom(obj, 1)

\* the position of the first "/" of s at or after i, Len(s) + 1 when there is none
RECURSIVE SlashFrom(_, _)
SlashFrom(s, i) == IF i > Len(s) \/ s[i] = "/" THEN i ELSE SlashFrom(s, i + 1)

\* the position of the last "/" of s, 0 when there is none
RECURSIVE LastSlash(_, _)
LastSlash(s, i) == IF i = 0 \/ s[i] = "/" THEN i ELSE LastSlash(s, i - 1)

SchemeLen(u) ==
    IF StartsWith(u, cHTTPS) THEN Len(cHTTPS)
    ELSE IF StartsWith(u, cHTTP) THEN Len(cHTTP)
    ELSE 0

\* scheme://host of an url, empty for a relative one
Origin(u) == IF SchemeLen(u) = 0 THEN << >> ELSE SubSeq(u, 1, SlashFrom(u, SchemeLen(u) + 1) - 1)

PathOf(u) == SubSeq(u, Len(Origin(u)) + 1, Len(u))

\* Url.resolve(from, to) of node's url module, for urls without dot segments:
\* an absolute to is the result; a to that starts with / replaces from's path;
\* any other to replaces the last segment of from's path
UrlResolve(from, to) ==
    IF SchemeLen(to) > 0 THEN to
    ELSE IF to = << >> THEN from
    ELSE IF Head(to) = "/" THEN Origin(from) \o to
    ELSE LET path == PathOf(from)
             dir == SubSeq(path, 1, LastSlash(path, Len(path)))
         IN IF Origin(from) # << >> /\ dir = << >> THEN Origin(from) \o <<"/">> \o to
            ELSE Origin(from) \o dir \o to

----------------------------------------------------------------------------
(* Api: constructor, buildFullUrl, auth, mergeOptions *)

\* new Api(apiUrl, options): an undefined argument takes its default
ApiConstructor(apiUrl, options) ==
    LET url == IF apiUrl = Undefined THEN Str(<< >>) ELSE apiUrl
        opts == IF options = Undefined THEN EmptyObj ELSE options
    IN IF url.t # "string"
       THEN [thrown |-> [t |-> "ApiError", message |-> <<"Provide a valid api url.">>],
             api |-> Undefined]
       ELSE [thrown |-> NoError, api |-> [API_ROOT |-> url.v, options |-> opts]]

buildFullUrl(self, url) ==
    IF RegexTest(cHTTP, url) \/ RegexTest(cWWW, url) THEN url
    ELSE UrlResolve(self.API_ROOT, url)

\* mergeOptions with the spreads of headers and query in the other order: the
\* defaults of the client win
mergeOptions_DefaultsWin(self, options) ==
    LET mergedHeaders == Spread(OrEmpty(Prop(options, "headers")),
                                OrEmpty(Prop(self.options, "headers")))
        mergedQuery == Spread(OrEmpty(Prop(options, "query")),
                              OrEmpty(Prop(self.options, "query")))
    IN With(With(Spread(self.options, options), "headers", mergedHeaders),
            "query", mergedQuery)

mergeOptions(self, options) ==
    LET mergedHeaders == Spread(OrEmpty(Prop(self.options, "headers")),
                                OrEmpty(Prop(options, "headers")))
        mergedQuery == Spread(OrEmpty(Prop(self.options, "query")),
                              OrEmpty(Prop(options, "query")))
    IN With(With(Spread(self.options, options), "headers", mergedHeaders),
            "query", mergedQuery)

\* `${token}`
TemplateString(token) == IF token.t = "string" THEN token.v ELSE token.t

\* this.apiUrl: the instance has the properties API_ROOT and options only
ThisApiUrl(self) == IF "apiUrl" \in DOMAIN self THEN Str(self.apiUrl) ELSE Undefined

\* auth that sets the header but not the mode
auth_WithoutMode(self, token) ==
    IF token = Null
    THEN [thrown |-> [t |-> "ApiError",
                      message |-> <<"AuthToken is null. Authorized API calls cannot be send.">>],
          api |-> Undefined]
    ELSE LET mergedOptions ==
                 mergeOptions(self, [headers |-> [Authorization |-> <<"Token ", TemplateString(token)>>]])
         IN ApiConstructor(ThisApiUrl(self), mergedOptions)

auth(self, token) ==
    IF token = Null
    THEN [thrown |-> [t |-> "ApiError",
                      message |-> <<"AuthToken is null. Authorized API calls cannot be send.">>],
          api |-> Undefined]
    ELSE LET mergedOptions ==
                 mergeOptions(self, [headers |-> [Authorization |-> <<"Token ", TemplateString(token)>>],
                                     mode |-> <<"cors">>])
         IN ApiConstructor(ThisApiUrl(self), mergedOptions)

----------------------------------------------------------------------------
(* Api: fetching *)

\* fetch(url, options = {}): one call of the transport, whose promise is
\* piped through transform
fetch(self, url, options) ==
    LET opts == IF options = Undefined THEN EmptyObj ELSE options
        mergedOptions == mergeOptions(self, opts)
        url1 == IF Truthy(mergedOptions.query)
                THEN url \o <<"?">> \o Stringify(mergedOptions.query)
                ELSE url
        fullUrl == buildFullUrl(self, url1)
    IN [thrown |-> NoError,
        transport |-> <<[url |-> fullUrl, options |-> mergedOptions]>>,
        promise |-> Pending("transport", NoResponse)]

\* JSON.stringify(json) for null, a string, and an object of string properties
JSONStringifyValue(x) ==
    IF x.t = "null" THEN <<"null">> ELSE <<"\"", x.v, "\"">>

RECURSIVE JSONStringifyProps(_, _)
JSONStringifyProps(obj, keys) ==
    IF keys = {} THEN << >>
    ELSE LET k == CHOOSE k \in keys : TRUE
             rest == JSONStringifyProps(obj, keys \ {k})
         IN <<"\"", k, "\"", ":">> \o JSONStringifyValue(obj[k])
            \o (IF rest = << >> THEN << >> ELSE <<",">> \o rest)

JSONStringify(json) ==
    IF json.t = "object" THEN <<"{">> \o JSONStringifyProps(json.v, DOMAIN json.v) \o <<"}">>
    ELSE JSONStringifyValue(json)

\* fetchWithJSON with the headers of the caller spread over the JSON headers
fetchWithJSON_CallerHeadersWin(self, url, json, options) ==
    IF json = Undefined
    THEN [thrown |-> [t |-> "ApiError", message |-> <<"No JSON object given">>],
          transport |-> << >>, promise |-> NoPromise]
    ELSE fetch(self, url,
               With(With(Spread(options, EmptyObj), "headers",
                         Spread([k \in {"Accept", "Content-Type"} |-> <<"application/json">>],
                                Prop(OrEmpty(options), "headers"))),
                    "body", JSONStringify(json)))

fetchWithJSON(self, url, json, options) ==
    IF json = Undefined
    THEN [thrown |-> [t |-> "ApiError", message |-> <<"No JSON object given">>],
          transport |-> << >>, promise |-> NoPromise]
    ELSE fetch(self, url,
               With(With(Spread(options, EmptyObj), "headers",
                         [k \in {"Accept", "Content-Type"} |-> <<"application/json">>]),
                    "body", JSONStringify(json)))

get(self, url, options) == fetch(self, url, With(Spread(options, EmptyObj), "method", <<"get">>))

post(self, url, options) == fetch(self, url, With(Spread(options, EmptyObj), "method", <<"post">>))

postJSON(self, url, json, options) ==
    fetchWithJSON(self, url, json, With(Spread(options, EmptyObj), "method", <<"post">>))

put(self, url, options) == fetch(self, url, With(Spread(options, EmptyObj), "method", <<"put">>))

putJSON(self, url, json, options) ==
    fetchWithJSON(self, url, json, With(Spread(options, EmptyObj), "method", <<"put">>))

----------------------------------------------------------------------------
(* The response pipeline alone: one Api, as the tests construct it *)

InitTransform ==
    /\ apis = <<[API_ROOT |-> cHTTP \o cHost, options |-> EmptyObj]>>
    /\ derivedFrom = <<[parent |-> 0, token |-> Undefined]>>
    /\ call = NoCall
    /\ promise = NoPromise

NextTransform ==
    \/ Idle /\ \E contentType \in ContentTypes : TransformerFromContentType(contentType)
    \/ Idle /\ \E response \in Responses : Transform(response)
    \/ DecodeSettles
    \/ Return

SpecTransform == InitTransform /\ [][NextTransform]_vars

----------------------------------------------------------------------------
(* The client: construction, auth, merging and dispatch to the transport *)

\* the root urls the caller constructs an Api with
Roots == {cHTTP \o cHost, cHTTP \o cHost \o <<"/", "v", "1", "/">>}

\* the default options the caller constructs an Api with
DefaultOptions ==
    {EmptyObj,
     [headers |-> [k \in {"Accept", "Foo"} |-> IF k = "Accept" THEN <<"text/html">> ELSE <<"Bar">>],
      auth |-> <<"123">>],
     [headers |-> [Authorization |-> <<"Token ", "old">>], mode |-> <<"no-cors">>,
      method |-> <<"get">>, query |-> [a |-> <<"1">>]],
     [headers |-> EmptyObj, query |-> [a |-> <<"1">>, q |-> <<"2">>], body |-> <<"x">>]}

\* the options of a call; undefined when the caller gives none
CallOptions ==
    {Undefined,
     EmptyObj,
     [headers |-> [k \in {"Accept", "Token"} |-> IF k = "Accept" THEN <<"x/y">> ELSE <<"123">>],
      auth |-> <<"321">>],
     [headers |-> [Authorization |-> <<"Basic ", "z">>], mode |-> <<"same-origin">>],
     [query |-> [q |-> cWWW], headers |-> Null],
     [query |-> [a |-> cHTTP \o <<"x">>], method |-> <<"delete">>, body |-> <<"y">>]}

\* the urls of a dispatch: relative paths, an absolute url, an url that starts with www
DispatchUrls ==
    {<<"/", "p">>, <<"p">>, cHTTP \o <<"f", "/", "b">>, cWWW \o <<".">> \o cHost}

\* the urls buildFullUrl is called with: also an https url and a relative path that holds www
Urls == DispatchUrls \cup {cHTTPS \o <<"f", "/", "b">>, <<"/", "a">> \o cWWW}

Tokens == {Null, Undefined, Str("abc")}

Payloads == {Undefined, Null, Str("s"), [t |-> "object", v |-> [foo |-> Str("bar")]]}

Init ==
    /\ \E apiUrl \in Roots, options \in DefaultOptions :
          apis = <<ApiConstructor(Str(apiUrl), options).api>>
    /\ derivedFrom = <<[parent |-> 0, token |-> Undefined]>>
    /\ call = NoCall
    /\ promise = NoPromise

Selfs == 1..Len(apis)

\* api.auth(token): a new instance, unless it throws
Auth(self, token) ==
    /\ Idle
    /\ Len(apis) < MaxApis
    /\ LET r == auth(apis[self], token)
       IN IF r.thrown # NoError
          THEN /\ call' = Called("auth", self, <<token>>, r.thrown, Undefined, << >>)
               /\ UNCHANGED <<apis, derivedFrom>>
          ELSE /\ call' = Called("auth", self, <<token>>, NoError,
                                 [t |-> "Api", index |-> Len(apis) + 1], << >>)
               /\ apis' = Append(apis, r.api)
               /\ derivedFrom' = Append(derivedFrom, [parent |-> self, token |-> token])
    /\ UNCHANGED promise

\* api.mergeOptions(options), as the tests call it
MergeOptions(self, options) ==
    /\ Idle
    /\ options # Undefined
    /\ call' = Called("mergeOptions", self, <<options>>, NoError,
                      mergeOptions(apis[self], options), << >>)
    /\ UNCHANGED <<apis, derivedFrom, promise>>

\* api.buildFullUrl(url), as the tests call it
BuildFullUrl(self, url) ==
    /\ Idle
    /\ call' = Called("buildFullUrl", self, <<url>>, NoError,
                      Str(buildFullUrl(apis[self], url)), << >>)
    /\ UNCHANGED <<apis, derivedFrom, promise>>

\* a call of one of the fetching methods, r its outcome
Dispatched(op, self, args, r) ==
    /\ Idle
    /\ call' = Called(op, self, args, r.thrown,
                      IF r.thrown = NoError THEN [t |-> "Promise"] ELSE Undefined, r.transport)
    /\ promise' = r.promise
    /\ UNCHANGED <<apis, derivedFrom>>

Fetch(self, url, options) ==
    Dispatched("fetch", self, <<url, options>>, fetch(apis[self], url, options))

FetchWithJSON(self, url, json, options) ==
    Dispatched("fetchWithJSON", self, <<url, json, options>>,
               fetchWithJSON(apis[self], url, json, options))

Get(self, url, options) ==
    Dispatched("get", self, <<url, options>>, get(apis[self], url, options))

Post(self, url, options) ==
    Dispatched("post", self, <<url, options>>, post(apis[self], url, options))

PostJSON(self, url, json, options) ==
    Dispatched("postJSON", self, <<url, json, options>>,
               postJSON(apis[self], url, json, options))

Put(self, url, options) ==
    Dispatched("put", self, <<url, options>>, put(apis[self], url, options))

PutJSON(self, url, json, options) ==
    Dispatched("putJSON", self, <<url, json, options>>,
               putJSON(apis[self], url, json, options))

\* the transport's promise resolves with a response: .then(this.transform.bind(this))
\* runs transform, and the promise of the dispatch follows what it throws or returns
TransportResolves(response) ==
    /\ promise.state = "pending"
    /\ promise.await = "transport"
    /\ LET r == transform(response, "transport")
       IN /\ call' = Called("transform", call.self, <<response>>, r.thrown,
                            IF r.thrown = NoError THEN [t |-> "Promise"] ELSE Undefined, << >>)
          /\ promise' = IF r.thrown # NoError
                        THEN Settled("rejected", "transport", response, r.thrown)
                        ELSE r.promise
    /\ UNCHANGED <<apis, derivedFrom>>

\* the transport's promise rejects: transform does not run
TransportRejects ==
    /\ promise.state = "pending"
    /\ promise.await = "transport"
    /\ promise' = Settled("rejected", "transport", NoResponse, TransportError)
    /\ UNCHANGED <<apis, derivedFrom, call>>

Next ==
    \/ Idle /\ \E self \in Selfs, token \in Tokens : Auth(self, token)
    \/ Idle /\ \E self \in Selfs, options \in CallOptions : MergeOptions(self, options)
    \/ Idle /\ \E self \in Selfs, url \in Urls : BuildFullUrl(self, url)
    \/ Idle /\ \E self \in Selfs, url \in DispatchUrls, options \in CallOptions :
                  Fetch(self, url, options)
    \/ Idle /\ \E self \in Selfs, url \in DispatchUrls, options \in CallOptions :
                  Get(self, url, options)
    \/ Idle /\ \E self \in Selfs, url \in DispatchUrls, options \in CallOptions :
                  Post(self, url, options)
    \/ Idle /\ \E self \in Selfs, url \in DispatchUrls, options \in CallOptions :
                  Put(self, url, options)
    \/ Idle /\ \E self \in Selfs, url \in DispatchUrls, json \in Payloads,
                   options \in CallOptions : FetchWithJSON(self, url, json, options)
    \/ Idle /\ \E self \in Selfs, url \in DispatchUrls, json \in Payloads,
                   options \in CallOptions : PostJSON(self, url, json, options)
    \/ Idle /\ \E self \in Selfs, url \in DispatchUrls, json \in Payloads,
                   options \in CallOptions : PutJSON(self, url, json, options)
    \/ promise.await = "transport" /\ \E response \in FetchResponses : TransportResolves(response)
    \/ TransportRejects
    \/ DecodeSettles
    \/ Return

Spec == Init /\ [][Next]_vars

----------------------------------------------------------------------------
(* Vocabulary of the properties, stated apart from the operators above *)

\* s holds pat as a run of consecutive characters
HasSubstring(s, pat) == \E i \in 0..(Len(s) - Len(pat)) : SubSeq(s, i + 1, i + Len(pat)) = pat

EndsWith(s, suffix) ==
    Len(suffix) <= Len(s) /\ SubSeq(s, Len(s) - Len(suffix) + 1, Len(s)) = suffix

Chars(s) == {s[i] : i \in 1..Len(s)}

\* the mapping an options object holds under key, empty when it holds none
MappingOf(o, key) ==
    IF o # Undefined /\ key \in DOMAIN o /\ o[key] # Null /\ o[key] # Undefined
    THEN o[key]
    ELSE EmptyObj

\* the union of two mappings, the second winning on the keys of both
RightBiasedUnion(a, b) == [k \in DOMAIN a \cup DOMAIN b |-> IF k \in DOMAIN b THEN b[k] ELSE a[k]]

PlainDispatchOps == {"fetch", "get", "post", "put"}
JSONDispatchOps == {"fetchWithJSON", "postJSON", "putJSON"}
DispatchOps == PlainDispatchOps \cup JSONDispatchOps

\* the last call was a dispatch that reached the transport
Dispatching == call.op \in DispatchOps /\ call.transport # << >>

\* the options the caller gave the dispatch (undefined when none), the receiver,
\* and the one (url, options) pair handed to the transport
CallerOptions == call.args[Len(call.args)]
Receiver == apis[call.self]
Sent == call.transport[1]

\* the response transform was last called with, directly or by the transport's promise
TransformCalled == call.op = "transform"
TheResponse == call.args[1]

\* the decode strategy of a content type by the rules as the code applies them
StrategyOf(contentType) ==
    IF contentType.t # "string" THEN "raw"
    ELSE IF HasSubstring(contentType.v, <<"j", "s", "o", "n">>) THEN "json"
    ELSE IF HasSubstring(contentType.v, <<"t", "e", "x", "t", "/">>) THEN "text"
    ELSE "raw"

\* the selected decode operation exists and produces a value, at once or through a
\* promise that resolves
DecodeProduces(response) ==
    /\ StrategyOf(response.contentType) \in response.has
    /\ response.decode.kind = "value" \/ response.decode.fate = "resolve"

ProducedValue(response) ==
    IF response.decode.payload \in {Null, Undefined} THEN response.decode.payload
    ELSE [t |-> "decoded", by |-> StrategyOf(response.contentType), of |-> response.decode.payload]

----------------------------------------------------------------------------
(* C1 *)

\* C1: for every response whose ok flag is true and whose selected decode operation
\* produces a value (at once or through a promise that resolves), transform returns a
\* promise and does not throw; the promise is fulfilled on return for an immediate
\* value, and whenever it is settled it is fulfilled with {response, data}, data the
\* produced value; it is never rejected.
C1_FulfilsWithDecodedData ==
    (TransformCalled /\ TheResponse.ok /\ DecodeProduces(TheResponse)) =>
        /\ call.thrown = NoError
        /\ promise.state \in {"pending", "fulfilled"}
        /\ TheResponse.decode.kind = "value" => promise.state = "fulfilled"
        /\ promise.state = "fulfilled" =>
              promise.value = [response |-> TheResponse, data |-> ProducedValue(TheResponse)]

\* the part of C1 the code satisfies: the same, for produced values other than an
\* immediate null or undefined
C1_ExceptImmediateNullish ==
    (TransformCalled /\ TheResponse.ok /\ DecodeProduces(TheResponse)
       /\ ~(TheResponse.decode.kind = "value" /\ TheResponse.decode.payload \in {Null, Undefined})) =>
        /\ call.thrown = NoError
        /\ promise.state \in {"pending", "fulfilled"}
        /\ TheResponse.decode.kind = "value" => promise.state = "fulfilled"
        /\ promise.state = "fulfilled" =>
              promise.value = [response |-> TheResponse, data |-> ProducedValue(TheResponse)]

----------------------------------------------------------------------------
(* C2 *)

\* the message of the ok-status error for each status line
OkStatusMessage(response) ==
    CASE response.status = 404 ->
            <<"Response has no ok-status (", "4", "0", "4", " - ", "Not Found", ")">>
      [] response.status = 500 ->
            <<"Response has no ok-status (", "5", "0", "0", " - ", "Internal Server Error", ")">>

\* C2: for every response whose ok flag is false and whose selected decode operation
\* produces a value, transform returns a promise and does not throw; the promise is
\* never fulfilled; when settled it is rejected with an ApiError that has the
\* ok-status message, the response and the produced value as data; for an immediate
\* value it is rejected on return, for a promise only in the continuation that runs
\* once the promise has resolved.
C2_RejectsWithDecodedData ==
    (TransformCalled /\ ~TheResponse.ok /\ DecodeProduces(TheResponse)) =>
        /\ call.thrown = NoError
        /\ promise.state \in {"pending", "rejected"}
        /\ TheResponse.decode.kind = "value" => promise.state = "rejected"
        /\ (TheResponse.decode.kind = "promise" /\ promise.state = "rejected") =>
              promise.via = "decode"
        /\ promise.state = "rejected" =>
              promise.value = [t |-> "ApiError", message |-> OkStatusMessage(TheResponse),
                               response |-> TheResponse, data |-> ProducedValue(TheResponse)]

\* the part of C2 the code satisfies: the same, for produced values other than an
\* immediate null or undefined
C2_ExceptImmediateNullish ==
    (TransformCalled /\ ~TheResponse.ok /\ DecodeProduces(TheResponse)
       /\ ~(TheResponse.decode.kind = "value" /\ TheResponse.decode.payload \in {Null, Undefined})) =>
        /\ call.thrown = NoError
        /\ promise.state \in {"pending", "rejected"}
        /\ TheResponse.decode.kind = "value" => promise.state = "rejected"
        /\ (TheResponse.decode.kind = "promise" /\ promise.state = "rejected") =>
              promise.via = "decode"
        /\ promise.state = "rejected" =>
              promise.value = [t |-> "ApiError", message |-> OkStatusMessage(TheResponse),
                               response |-> TheResponse, data |-> ProducedValue(TheResponse)]

----------------------------------------------------------------------------
(* C3 *)

Classified == call.op = "transformerFromContentType"

\* C3, as claimed: a non-string gives raw; a string that contains json gives json;
\* otherwise a string that starts with text/ gives text; every other string, also
\* one that holds text/ only after its first character, gives raw.
C3_TextOnlyAsPrefix ==
    Classified =>
        LET contentType == call.args[1]
        IN call.returned.v =
              IF contentType.t # "string" THEN "raw"
              ELSE IF HasSubstring(contentType.v, <<"j", "s", "o", "n">>) THEN "json"
              ELSE IF StartsWith(contentType.v, <<"t", "e", "x", "t", "/">>) THEN "text"
              ELSE "raw"

\* C3, amended: a non-string gives raw; a string that contains json gives json;
\* otherwise a string that contains text/ anywhere gives text; every other string
\* gives raw.
C3_TextAnywhere ==
    Classified =>
        LET contentType == call.args[1]
        IN call.returned.v =
              IF contentType.t # "string" THEN "raw"
              ELSE IF HasSubstring(contentType.v, <<"j", "s", "o", "n">>) THEN "json"
              ELSE IF HasSubstring(contentType.v, <<"t", "e", "x", "t", "/">>) THEN "text"
              ELSE "raw"

\* a string without json that holds text/ only after its first character was
\* classified, as text
C3_Witness ==
    /\ Classified
    /\ call.args[1].t = "string"
    /\ ~HasSubstring(call.args[1].v, <<"j", "s", "o", "n">>)
    /\ ~StartsWith(call.args[1].v, <<"t", "e", "x", "t", "/">>)
    /\ HasSubstring(call.args[1].v, <<"t", "e", "x", "t", "/">>)
    /\ call.returned = Str("text")

----------------------------------------------------------------------------
(* C10 *)

\* transform was called with a response that holds no function under the name of
\* its decode strategy
NoDecodeOperation ==
    TransformCalled /\ StrategyOf(TheResponse.contentType) \notin TheResponse.has

\* C10, as claimed: such a call does not throw; it returns a promise that is
\* rejected with the "Response has no transformer with name <strategy>" error.
C10_RejectsWithoutThrowing ==
    NoDecodeOperation =>
        /\ call.thrown = NoError
        /\ promise.state = "rejected"
        /\ promise.value =
              [t |-> "ApiError",
               message |-> <<"Response has no transformer with name ",
                             StrategyOf(TheResponse.contentType)>>]

\* C10, amended: such a call throws the "Response has no transformer with name
\* <strategy>" ApiError synchronously and returns no promise, for ok and non-ok
\* responses alike, whatever other decode operations the response has.
C10_ThrowsSynchronously ==
    NoDecodeOperation =>
        /\ call.thrown =
              [t |-> "ApiError",
               message |-> <<"Response has no transformer with name ",
                             StrategyOf(TheResponse.contentType)>>]
        /\ call.returned = Undefined
        /\ promise.state = "none"

\* a non-ok response with a json content type that has raw and text but no json
\* was transformed, and the call threw
C10_Witness ==
    /\ NoDecodeOperation
    /\ ~TheResponse.ok
    /\ StrategyOf(TheResponse.contentType) = "json"
    /\ TheResponse.has = {"raw", "text"}
    /\ call.thrown # NoError

----------------------------------------------------------------------------
(* C4 *)

Merged == call.op = "mergeOptions"

----------------------------------------------------------------------------
(* C5 *)

\* the caller's url with the query string the dispatch appended to it
WithQuery(url) == url \o <<"?">> \o Stringify(Sent.options.query)

\* what C5 has the transport receive for the url as the dispatch extended it
ResolvedByPrefix(callerUrl, extended) ==
    IF StartsWith(callerUrl, cHTTP) \/ StartsWith(callerUrl, cWWW) THEN extended
    ELSE UrlResolve(Receiver.API_ROOT, extended)

\* C5: in every dispatch the url handed to the transport is the caller's url (with
\* the appended query string) unchanged when the caller's url starts with http:// or
\* with www, and is otherwise that url resolved against the root url of the client,
\* also when the query string holds www or http://. (With an empty query the url
\* without the question mark is accepted too, see C9.)
C5_AbsoluteOnlyByPrefix ==
    Dispatching =>
        \/ Sent.url = ResolvedByPrefix(call.args[1], WithQuery(call.args[1]))
        \/ /\ Sent.options.query = EmptyObj
           /\ Sent.url = ResolvedByPrefix(call.args[1], call.args[1])

----------------------------------------------------------------------------
(* C8 *)

\* C8: every client that auth() derived has the root url of the client it was
\* derived from, and resolves every relative url as that client does.
C8_DerivedKeepsRoot ==
    \A i \in DOMAIN apis :
        derivedFrom[i].parent # 0 =>
            /\ apis[i].API_ROOT = apis[derivedFrom[i].parent].API_ROOT
            /\ \A url \in {<<"/", "p">>, <<"p">>} :
                  buildFullUrl(apis[i], url) = buildFullUrl(apis[derivedFrom[i].parent], url)

----------------------------------------------------------------------------
(* C9 *)

\* C9: in every dispatch the url handed to the transport ends with ? and the
\* serialized query when the merged query is not empty, and holds no ? when the
\* merged query is empty.
C9_QuestionMarkOnlyWithQuery ==
    Dispatching =>
        IF Sent.options.query = EmptyObj
        THEN "?" \notin Chars(Sent.url)
        ELSE EndsWith(Sent.url, <<"?">> \o Stringify(Sent.options.query))

----------------------------------------------------------------------------
(* C7 *)

\* the JSON text of each payload
JSONText(json) ==
    CASE json = Null -> <<"null">>
      [] json = Str("s") -> <<"\"", "s", "\"">>
      [] json = [t |-> "object", v |-> [foo |-> Str("bar")]] ->
            <<"{", "\"", "foo", "\"", ":", "\"", "bar", "\"", "}">>

\* C7: fetchWithJSON (also through postJSON and putJSON) with an undefined payload
\* throws the "No JSON object given" ApiError and does not call the transport;
\* with any other payload, null included, it throws nothing and calls the
\* transport once, with the JSON text of the payload as body and with the headers
\* Accept and Content-Type both application/json, whatever the defaults of the
\* client and the options of the caller hold under these two names.
C7_JSONDispatch ==
    call.op \in JSONDispatchOps =>
        IF call.args[2] = Undefined
        THEN /\ call.thrown = [t |-> "ApiError", message |-> <<"No JSON object given">>]
             /\ call.transport = << >>
             /\ promise.state = "none"
        ELSE /\ call.thrown = NoError
             /\ Len(call.transport) = 1
             /\ Sent.options.body = JSONText(call.args[2])
             /\ Sent.options.headers["Accept"] = <<"application/json">>
             /\ Sent.options.headers["Content-Type"] = <<"application/json">>

\* fetchWithJSON was called with the payload null on a client whose defaults hold
\* another Accept header, with options of the caller that hold yet another one
C7_Witness ==
    /\ call.op = "fetchWithJSON"
    /\ call.args[2] = Null
    /\ "Accept" \in DOMAIN MappingOf(Receiver.options, "headers")
    /\ "Accept" \in DOMAIN MappingOf(CallerOptions, "headers")
    /\ Receiver.options.headers["Accept"] # <<"application/json">>
    /\ CallerOptions.headers["Accept"] # <<"application/json">>
    /\ Len(call.transport) = 1
    /\ Sent.options.body = <<"null">>

----------------------------------------------------------------------------
(* C6 *)

\* the Authorization header auth(token) gives
TokenHeader(token) == <<"Token ", IF token.t = "string" THEN token.v ELSE token.t>>

Derived(i) == derivedFrom[i].parent # 0

\* the defaults of a derived client hold the header of its token and the mode cors
C6_DerivedDefaults ==
    \A i \in DOMAIN apis :
        Derived(i) =>
            /\ derivedFrom[i].token # Null
            /\ "Authorization" \in DOMAIN MappingOf(apis[i].options, "headers")
            /\ apis[i].options.headers["Authorization"] = TokenHeader(derivedFrom[i].token)
            /\ "mode" \in DOMAIN apis[i].options
            /\ apis[i].options.mode = <<"cors">>

\* a dispatch on a derived client hands them to the transport, unless the options
\* of the caller hold the key
C6_DerivedDispatch ==
    (Dispatching /\ Derived(call.self)) =>
        /\ "Authorization" \notin DOMAIN MappingOf(CallerOptions, "headers") =>
              /\ "Authorization" \in DOMAIN Sent.options.headers
              /\ Sent.options.headers["Authorization"] = TokenHeader(derivedFrom[call.self].token)
        /\ (CallerOptions = Undefined \/ "mode" \notin DOMAIN CallerOptions) =>
              /\ "mode" \in DOMAIN Sent.options
              /\ Sent.options.mode = <<"cors">>

\* a dispatch on a client carries an Authorization header only from the client's
\* own defaults or from the options of the caller, whatever was derived from it
C6_NoHeaderFromOthers ==
    (Dispatching /\ "Authorization" \in DOMAIN Sent.options.headers) =>
        \/ /\ "Authorization" \in DOMAIN MappingOf(Receiver.options, "headers")
           /\ Sent.options.headers["Authorization"] = Receiver.options.headers["Authorization"]
        \/ /\ "Authorization" \in DOMAIN MappingOf(CallerOptions, "headers")
           /\ Sent.options.headers["Authorization"] = CallerOptions.headers["Authorization"]

\* what an auth call threw or returned
C6_AuthResult ==
    call.op = "auth" =>
        IF call.args[1] = Null
        THEN /\ call.thrown.t = "ApiError"
             /\ call.returned = Undefined
        ELSE /\ call.thrown = NoError
             /\ call.returned = [t |-> "Api", index |-> Len(apis)]
             /\ derivedFrom[Len(apis)] = [parent |-> call.self, token |-> call.args[1]]

\* no step changes an existing client; auth creates one client, or none when it throws
C6_Frame ==
    /\ Len(apis') >= Len(apis)
    /\ \A i \in DOMAIN apis : apis'[i] = apis[i]
    /\ (call.op = "none" /\ call'.op = "auth") =>
          Len(apis') = IF call'.args[1] = Null THEN Len(apis) ELSE Len(apis) + 1

\* C6: auth(token) with a token other than null returns a new client whose
\* dispatches hand the transport the header Authorization "Token <token>" and the
\* mode cors unless the options of the caller hold them; the client it was called
\* on keeps its options and root url, and its dispatches carry no Authorization
\* header from that call; auth(null) throws and creates no client.
C6_AuthDerivesWithoutSideEffect ==
    /\ [](C6_DerivedDefaults /\ C6_DerivedDispatch /\ C6_NoHeaderFromOthers /\ C6_AuthResult)
    /\ [][C6_Frame]_vars

\* get was called on a client derived with the token abc from a client whose
\* defaults hold another Authorization header and another mode; the transport
\* received the header of the token and the mode cors, and the first client still
\* holds its own
C6_Witness ==
    /\ call.op = "get"
    /\ Dispatching
    /\ Derived(call.self)
    /\ derivedFrom[call.self].token = Str("abc")
    /\ Sent.options.headers["Authorization"] = <<"Token ", "abc">>
    /\ Sent.options.mode = <<"cors">>
    /\ LET original == apis[derivedFrom[call.self].parent].options
       IN /\ "mode" \in DOMAIN original
          /\ original.mode = <<"no-cors">>
          /\ "Authorization" \in DOMAIN MappingOf(original, "headers")
          /\ original.headers["Authorization"] = <<"Token ", "old">>

====
